---- MODULE Spec2Model ----
(***************************************************************************)
(* Model of rpc.go: the request/response Handler on top of a paho MQTT v5  *)
(* client.  Request registers a fresh correlation identifier with an       *)
(* unbuffered reply channel, publishes, and selects over {timer, ctx,      *)
(* reply channel}; responseHandler looks the identifier up (and deletes    *)
(* it) under the Handler mutex and then sends on the channel it found.     *)
(***************************************************************************)
EXTENDS Integers, FiniteSets, Sequences, TLC

\* ---- bounds -------------------------------------------------------------
NCalls == 2        \* number of Request calls
NHandlers == 2     \* number of responseHandler invocations

NLiveHandlers == 1 \* invocations taking part in the liveness specification

Calls == 1..NCalls
Handlers == 1..NHandlers
LiveHandlers == {h \in Handlers : h <= NLiveHandlers}

\* ---- values -------------------------------------------------------------
NilChan == 0                 \* the nil channel (a missing map key reads as nil)
NilData == 0 - 1             \* nil CorrelationData / not yet generated
FirstID == 100
ForeignID == FirstID         \* an identifier this Handler never generated
NilMsg == [mid |-> 0, hasProps |-> FALSE, correl |-> NilData]

ErrNil == "nil"
ErrRequestTimeout == "request timeout"
ErrPublish == "publish error"
CtxErrs == {"context canceled", "context deadline exceeded"}

NoResult == [resp |-> NilMsg, err |-> ErrNil]

VARIABLES
    correlData,   \* h.correlData: map correlation id -> reply channel
    mutex,        \* h.Mutex: the set of processes holding it (empty or one)
    wire,         \* identifiers of the envelopes that reached the transport
    pc,           \* per Request call: position in Request
    cID,          \* per Request call: local cID
    ctxErr,       \* per Request call: ctx.Err() of the caller's context
    result,       \* per Request call: the returned (resp, err)
    hpc,          \* per responseHandler invocation: position
    hmsg,         \* per responseHandler invocation: the argument pb
    hChan,        \* per responseHandler invocation: local rChan
    late          \* history: invocations handed a reply whose call had
                  \* already returned by timeout or cancellation

vars == <<correlData, mutex, wire, pc, cID, ctxErr, result,
          hpc, hmsg, hChan, late>>

reqVars == <<pc, cID, ctxErr, result>>
hdlVars == <<hpc, hmsg, hChan, late>>

\* ---- the Go map ---------------------------------------------------------
\* a lookup that ignores the key and returns some registered channel
MapGet_AnyEntry(m, k) ==
    IF DOMAIN m = {} THEN NilChan
    ELSE m[CHOOSE x \in DOMAIN m : \A y \in DOMAIN m : x >= y]

\* an insert that leaves the map as it was
MapSet_Noop(m, k, v) == m

\* an insert that also overwrites every other entry with the new channel
MapSet_Clobber(m, k, v) == [x \in (DOMAIN m) \cup {k} |-> v]

\* m[k] = v
MapSet(m, k, v) == [x \in (DOMAIN m) \cup {k} |-> IF x = k THEN v ELSE m[x]]

\* m[k]: the zero value (nil channel) when k is absent
MapGet(m, k) == IF k \in DOMAIN m THEN m[k] ELSE NilChan

\* a delete that leaves the map as it was
MapDelete_Noop(m, k) == m

\* a delete that empties the map
MapDelete_Clear(m, k) == [x \in {} |-> NilChan]

\* delete(m, k)
MapDelete(m, k) == [x \in (DOMAIN m) \ {k} |-> m[x]]

\* uuid.New().String(): a fresh identifier, distinct for distinct calls
UUID(c) == FirstID + c

\* make(chan *paho.Publish): the channel created by call c is named c
MakeChan(c) == c

ReqProc(c) == <<"Request", c>>
HdlProc(h) == <<"responseHandler", h>>

\* ---- initial state: NewHandler has returned -----------------------------
Init ==
    /\ correlData = <<>>
    /\ mutex = {}
    /\ wire = {}
    /\ pc = [c \in Calls |-> "idle"]
    /\ cID = [c \in Calls |-> NilData]
    /\ ctxErr = [c \in Calls |-> ErrNil]
    /\ result = [c \in Calls |-> NoResult]
    /\ hpc = [h \in Handlers |-> "idle"]
    /\ hmsg = [h \in Handlers |-> NilMsg]
    /\ hChan = [h \in Handlers |-> NilChan]
    /\ late = {}

\* ---- Request ------------------------------------------------------------
\* cID := uuid.New().String(); rChan := make(chan *paho.Publish);
\* enter addCorrelID
RequestStart(c) ==
    /\ pc[c] = "idle"
    /\ cID' = [cID EXCEPT ![c] = UUID(c)]
    /\ pc' = [pc EXCEPT ![c] = "addLock"]
    /\ UNCHANGED <<correlData, mutex, wire, ctxErr, result, hdlVars>>

\* addCorrelID: h.Lock()
addCorrelIDLock(c) ==
    /\ pc[c] = "addLock"
    /\ mutex = {}
    /\ mutex' = {ReqProc(c)}
    /\ pc' = [pc EXCEPT ![c] = "addBody"]
    /\ UNCHANGED <<correlData, wire, cID, ctxErr, result, hdlVars>>

\* addCorrelID without the deferred h.Unlock()
addCorrelID_NoUnlock(c) ==
    /\ pc[c] = "addBody"
    /\ mutex = {ReqProc(c)}
    /\ correlData' = MapSet(correlData, cID[c], MakeChan(c))
    /\ pc' = [pc EXCEPT ![c] = "publish"]
    /\ UNCHANGED <<mutex, wire, cID, ctxErr, result, hdlVars>>

\* addCorrelID: h.correlData[cID] = r; deferred h.Unlock()
addCorrelID(c) ==
    /\ pc[c] = "addBody"
    /\ mutex = {ReqProc(c)}
    /\ correlData' = MapSet(correlData, cID[c], MakeChan(c))
    /\ mutex' = {}
    /\ pc' = [pc EXCEPT ![c] = "publish"]
    /\ UNCHANGED <<wire, cID, ctxErr, result, hdlVars>>

\* pb.Properties.CorrelationData = []byte(cID); h.c.Publish(ctx, pb) returns
\* nil: the envelope is on the transport, the call enters the select
RequestPublishOk(c) ==
    /\ pc[c] = "publish"
    /\ wire' = wire \cup {cID[c]}
    /\ pc' = [pc EXCEPT ![c] = "select"]
    /\ UNCHANGED <<correlData, mutex, cID, ctxErr, result, hdlVars>>

\* h.c.Publish(ctx, pb) returns err: return nil, err.  The envelope may or
\* may not have reached the transport (e.g. the acknowledgement was lost).
RequestPublishFail(c) ==
    /\ pc[c] = "publish"
    /\ \E sent \in BOOLEAN :
          wire' = IF sent THEN wire \cup {cID[c]} ELSE wire
    /\ result' = [result EXCEPT ![c] = [resp |-> NilMsg, err |-> ErrPublish]]
    /\ pc' = [pc EXCEPT ![c] = "done"]
    /\ UNCHANGED <<correlData, mutex, cID, ctxErr, hdlVars>>

\* a timer arm that also fires on a call that has already returned
RequestTimeout_AfterReturn(c) ==
    /\ pc[c] \in {"select", "done"}
    /\ result' = [result EXCEPT ![c] =
                     [resp |-> NilMsg, err |-> ErrRequestTimeout]]
    /\ pc' = [pc EXCEPT ![c] = "done"]
    /\ UNCHANGED <<correlData, mutex, wire, cID, ctxErr, hdlVars>>

\* case <-time.After(h.requestTimeout): return nil, ErrRequestTimeout
RequestTimeout(c) ==
    /\ pc[c] = "select"
    /\ result' = [result EXCEPT ![c] =
                     [resp |-> NilMsg, err |-> ErrRequestTimeout]]
    /\ pc' = [pc EXCEPT ![c] = "done"]
    /\ UNCHANGED <<correlData, mutex, wire, cID, ctxErr, hdlVars>>

\* a ctx.Done arm that reports the timeout error
RequestCtxDone_AsTimeout(c) ==
    /\ pc[c] = "select"
    /\ ctxErr[c] # ErrNil
    /\ result' = [result EXCEPT ![c] =
                     [resp |-> NilMsg, err |-> ErrRequestTimeout]]
    /\ pc' = [pc EXCEPT ![c] = "done"]
    /\ UNCHANGED <<correlData, mutex, wire, cID, ctxErr, hdlVars>>

\* case <-ctx.Done(): return nil, ctx.Err()
RequestCtxDone(c) ==
    /\ pc[c] = "select"
    /\ ctxErr[c] # ErrNil
    /\ result' = [result EXCEPT ![c] = [resp |-> NilMsg, err |-> ctxErr[c]]]
    /\ pc' = [pc EXCEPT ![c] = "done"]
    /\ UNCHANGED <<correlData, mutex, wire, cID, ctxErr, hdlVars>>

\* the caller cancels the context, or its deadline passes (environment)
CtxCancel(c) ==
    /\ pc[c] # "idle"
    /\ ctxErr[c] = ErrNil
    /\ \E e \in CtxErrs : ctxErr' = [ctxErr EXCEPT ![c] = e]
    /\ UNCHANGED <<correlData, mutex, wire, pc, cID, result, hdlVars>>

\* ---- responseHandler ----------------------------------------------------
\* the inbound messages the transport can hand over as invocation h
InboundMsgs(h) ==
    {[mid |-> h, hasProps |-> FALSE, correl |-> NilData],
     [mid |-> h, hasProps |-> TRUE, correl |-> NilData]}
    \cup {[mid |-> h, hasProps |-> TRUE, correl |-> k] :
             k \in wire \cup {ForeignID}}

\* the Request calls that generated identifier k and have returned by
\* timeout or cancellation
ResolvedWithoutReply(k) ==
    {c \in Calls : /\ cID[c] = k
                   /\ pc[c] = "done"
                   /\ result[c].err \in {ErrRequestTimeout} \cup CtxErrs}

\* if pb.Properties == nil || pb.Properties.CorrelationData == nil { return }
responseHandlerStart(h) ==
    /\ hpc[h] = "idle"
    /\ \E m \in InboundMsgs(h) :
          /\ hmsg' = [hmsg EXCEPT ![h] = m]
          /\ hpc' = [hpc EXCEPT ![h] =
                        IF (~m.hasProps) \/ m.correl = NilData
                        THEN "done" ELSE "getLock"]
          /\ late' = IF m.correl # NilData /\ ResolvedWithoutReply(m.correl) # {}
                     THEN late \cup {h} ELSE late
    /\ UNCHANGED <<correlData, mutex, wire, reqVars, hChan>>

\* getCorrelIDChan: h.Lock()
getCorrelIDChanLock(h) ==
    /\ hpc[h] = "getLock"
    /\ mutex = {}
    /\ mutex' = {HdlProc(h)}
    /\ hpc' = [hpc EXCEPT ![h] = "getBody"]
    /\ UNCHANGED <<correlData, wire, reqVars, hmsg, hChan, late>>

\* getCorrelIDChan without the deferred h.Unlock()
getCorrelIDChan_NoUnlock(h) ==
    /\ hpc[h] = "getBody"
    /\ mutex = {HdlProc(h)}
    /\ hChan' = [hChan EXCEPT ![h] = MapGet(correlData, hmsg[h].correl)]
    /\ correlData' = MapDelete(correlData, hmsg[h].correl)
    /\ hpc' = [hpc EXCEPT ![h] =
                  IF hChan'[h] = NilChan THEN "done" ELSE "send"]
    /\ UNCHANGED <<mutex, wire, reqVars, hmsg, late>>

\* getCorrelIDChan without delete(h.correlData, cID)
getCorrelIDChan_NoDelete(h) ==
    /\ hpc[h] = "getBody"
    /\ mutex = {HdlProc(h)}
    /\ hChan' = [hChan EXCEPT ![h] = MapGet(correlData, hmsg[h].correl)]
    /\ mutex' = {}
    /\ hpc' = [hpc EXCEPT ![h] =
                  IF hChan'[h] = NilChan THEN "done" ELSE "send"]
    /\ UNCHANGED <<correlData, wire, reqVars, hmsg, late>>

\* getCorrelIDChan: rChan := h.correlData[cID]; delete(h.correlData, cID);
\* deferred h.Unlock(); return rChan.  if rChan == nil { return }
getCorrelIDChan(h) ==
    /\ hpc[h] = "getBody"
    /\ mutex = {HdlProc(h)}
    /\ hChan' = [hChan EXCEPT ![h] = MapGet(correlData, hmsg[h].correl)]
    /\ correlData' = MapDelete(correlData, hmsg[h].correl)
    /\ mutex' = {}
    /\ hpc' = [hpc EXCEPT ![h] =
                  IF hChan'[h] = NilChan THEN "done" ELSE "send"]
    /\ UNCHANGED <<wire, reqVars, hmsg, late>>

\* a receive arm that returns nil instead of the received message
Handoff_DropsMsg(h, c) ==
    /\ hpc[h] = "send"
    /\ pc[c] = "select"
    /\ hChan[h] = MakeChan(c)
    /\ result' = [result EXCEPT ![c] = [resp |-> NilMsg, err |-> ErrNil]]
    /\ pc' = [pc EXCEPT ![c] = "done"]
    /\ hpc' = [hpc EXCEPT ![h] = "done"]
    /\ UNCHANGED <<correlData, mutex, wire, cID, ctxErr,
                   hmsg, hChan, late>>

\* a send on a buffered channel: it completes without a receiver
Handoff_Buffered(h, c) ==
    /\ hpc[h] = "send"
    /\ hChan[h] = MakeChan(c)
    /\ hpc' = [hpc EXCEPT ![h] = "done"]
    /\ UNCHANGED <<correlData, mutex, wire, reqVars, hmsg, hChan, late>>

\* rChan <- pb meeting case resp := <-rChan: return resp, nil.  The channel
\* is unbuffered, so the send completes only together with the receive of
\* the call that is selecting on that channel.
Handoff(h, c) ==
    /\ hpc[h] = "send"
    /\ pc[c] = "select"
    /\ hChan[h] = MakeChan(c)
    /\ result' = [result EXCEPT ![c] = [resp |-> hmsg[h], err |-> ErrNil]]
    /\ pc' = [pc EXCEPT ![c] = "done"]
    /\ hpc' = [hpc EXCEPT ![h] = "done"]
    /\ UNCHANGED <<correlData, mutex, wire, cID, ctxErr,
                   hmsg, hChan, late>>

Next ==
    \/ \E c \in Calls : RequestStart(c)
    \/ \E c \in Calls : addCorrelIDLock(c)
    \/ \E c \in Calls : addCorrelID(c)
    \/ \E c \in Calls : RequestPublishOk(c)
    \/ \E c \in Calls : RequestPublishFail(c)
    \/ \E c \in Calls : RequestTimeout(c)
    \/ \E c \in Calls : RequestCtxDone(c)
    \/ \E c \in Calls : CtxCancel(c)
    \/ \E h \in Handlers : responseHandlerStart(h)
    \/ \E h \in Handlers : getCorrelIDChanLock(h)
    \/ \E h \in Handlers : getCorrelIDChan(h)
    \/ \E h \in Handlers, c \in Calls : Handoff(h, c)

Spec == Init /\ [][Next]_vars

\* the steps of one Request call and of one responseHandler invocation
\* once they have been started
RequestProc(c) ==
    \/ addCorrelIDLock(c)
    \/ addCorrelID(c)
    \/ RequestPublishOk(c)
    \/ RequestPublishFail(c)
    \/ RequestTimeout(c)
    \/ RequestCtxDone(c)

responseHandlerProc(h) ==
    \/ getCorrelIDChanLock(h)
    \/ getCorrelIDChan(h)
    \/ \E c \in Calls : Handoff(h, c)

\* Scheduling: every goroutine that can take a step eventually takes it, a
\* goroutine waiting for the mutex eventually gets it (sync.Mutex does not
\* starve a waiter), Publish returns, and the timer of a call that stays
\* in its select eventually fires.  Nothing forces the environment to
\* start calls, cancel contexts or hand over inbound messages.
FairSpec ==
    /\ Spec
    /\ \A c \in Calls : SF_vars(RequestProc(c))
    /\ \A h \in Handlers : SF_vars(responseHandlerProc(h))

\* The same program and scheduling with only the invocations of
\* LiveHandlers ever handed a message: the behaviour graph on which the
\* liveness of Request is checked.
LiveNext ==
    \/ \E c \in Calls : RequestStart(c)
    \/ \E c \in Calls : addCorrelIDLock(c)
    \/ \E c \in Calls : addCorrelID(c)
    \/ \E c \in Calls : RequestPublishOk(c)
    \/ \E c \in Calls : RequestPublishFail(c)
    \/ \E c \in Calls : RequestTimeout(c)
    \/ \E c \in Calls : RequestCtxDone(c)
    \/ \E c \in Calls : CtxCancel(c)
    \/ \E h \in LiveHandlers : responseHandlerStart(h)
    \/ \E h \in LiveHandlers : getCorrelIDChanLock(h)
    \/ \E h \in LiveHandlers : getCorrelIDChan(h)
    \/ \E h \in LiveHandlers, c \in Calls : Handoff(h, c)

LiveSpec ==
    /\ Init
    /\ [][LiveNext]_vars
    /\ \A c \in Calls : SF_vars(RequestProc(c))
    /\ \A h \in LiveHandlers : SF_vars(responseHandlerProc(h))

TypeOK ==
    /\ mutex \subseteq {ReqProc(c) : c \in Calls} \cup {HdlProc(h) : h \in Handlers}
    /\ Cardinality(mutex) <= 1
    /\ DOMAIN correlData \subseteq {UUID(c) : c \in Calls}
    /\ \A k \in DOMAIN correlData : correlData[k] \in Calls
    /\ \A c \in Calls : cID[c] \in {NilData, UUID(c)}

\* ---- helpers for the properties ------------------------------------------
Returned(c) == pc[c] = "done"
GotReply(c) == Returned(c) /\ result[c].err = ErrNil
InRegistry(k) == k \in DOMAIN correlData
\* invocation h obtained a (non-nil) reply slot from getCorrelIDChan
ObtainedSlot(h) == hpc[h] \in {"send", "done"} /\ hChan[h] # NilChan
\* invocation h is past getCorrelIDChan
PastLookup(h) == hpc[h] \in {"send", "done"} /\ hmsg[h].correl # NilData

\* C1: every Request call that returns a reply returns a message whose
\* correlation identifier is the identifier that call generated and
\* registered; no call receives a reply carrying another call's identifier.
C1_OwnReplyOnly ==
    \A c \in Calls :
        GotReply(c) => /\ result[c].resp # NilMsg
                       /\ result[c].resp.correl = cID[c]
                       /\ result[c].resp.correl = UUID(c)

\* two concurrent calls were both awaiting, and both returned a reply
C1_Witness ==
    /\ \A c \in Calls : GotReply(c)
    /\ \E c1, c2 \in Calls :
          /\ c1 < c2
          /\ result[c1].resp.mid > result[c2].resp.mid

\* C2: every invocation of responseHandler eventually returns, in every
\* interleaving, including when the owning Request has already returned or
\* returns between the registry lookup and the hand-off.
C2_HandlerReturns ==
    \A h \in Handlers : (hpc[h] # "idle") ~> (hpc[h] = "done")

\* C3: a reply handed to responseHandler after its Request call was resolved
\* by timeout or cancellation is dropped: the lookup finds nothing and no
\* Request call ever receives the message.
C3_LateReplyDropped ==
    \A h \in late :
        /\ PastLookup(h) => hChan[h] = NilChan
        /\ \A c \in Calls : result[c].resp # hmsg[h]

\* C4: whenever no Request call is in flight, the registry is empty.
C4_NoLeak ==
    (\A c \in Calls : pc[c] \in {"idle", "done"}) => DOMAIN correlData = {}

\* ---- the life cycle of a Request call ------------------------------------
LifeState(p) ==
    CASE p = "idle" -> "NEW"
      [] p \in {"addLock", "addBody", "publish"} -> "CREATED"
      [] p = "select" -> "AWAITING"
      [] p = "done" -> "TERMINAL"

ByReply(c) == result[c].resp # NilMsg /\ result[c].err = ErrNil
ByTimeout(c) == result[c].resp = NilMsg /\ result[c].err = ErrRequestTimeout
ByCancel(c) == result[c].resp = NilMsg /\ result[c].err \in CtxErrs
ByPublishError(c) == result[c].resp = NilMsg /\ result[c].err = ErrPublish

\* once returned, a call stays returned with the same (resp, err)
TerminalIsFinal(c) ==
    Returned(c) => (pc'[c] = "done" /\ result'[c] = result[c])

\* C5 (as stated): each Request call follows CREATED -> AWAITING -> one
\* terminal state and is resolved by exactly one of {reply, timeout,
\* cancellation}; it never returns both a reply and an error, and once
\* terminal no later event changes its outcome or moves it back.
C5_ThreeWayResolution ==
    /\ [](\A c \in Calls :
            Returned(c) => (ByReply(c) \/ ByTimeout(c) \/ ByCancel(c)))
    /\ [][\A c \in Calls :
            /\ <<LifeState(pc[c]), LifeState(pc'[c])>> \in
                  {<<"NEW", "NEW">>, <<"NEW", "CREATED">>,
                   <<"CREATED", "CREATED">>, <<"CREATED", "AWAITING">>,
                   <<"AWAITING", "AWAITING">>, <<"AWAITING", "TERMINAL">>,
                   <<"TERMINAL", "TERMINAL">>}
            /\ TerminalIsFinal(c)]_vars

\* C5 (amended): as C5, with the fourth resolution the code has: a call
\* whose Publish fails goes from CREATED straight to a terminal state
\* carrying the publish error, and only such a call skips AWAITING.
C5_FourWayResolution ==
    /\ [](\A c \in Calls :
            Returned(c) =>
               \/ ByReply(c) /\ ~ByTimeout(c) /\ ~ByCancel(c) /\ ~ByPublishError(c)
               \/ ByTimeout(c) /\ ~ByCancel(c) /\ ~ByPublishError(c)
               \/ ByCancel(c) /\ ~ByPublishError(c)
               \/ ByPublishError(c))
    /\ [][\A c \in Calls :
            /\ <<LifeState(pc[c]), LifeState(pc'[c])>> \in
                  {<<"NEW", "NEW">>, <<"NEW", "CREATED">>,
                   <<"CREATED", "CREATED">>, <<"CREATED", "AWAITING">>,
                   <<"CREATED", "TERMINAL">>,
                   <<"AWAITING", "AWAITING">>, <<"AWAITING", "TERMINAL">>,
                   <<"TERMINAL", "TERMINAL">>}
            /\ (LifeState(pc[c]) = "CREATED" /\ LifeState(pc'[c]) = "TERMINAL")
                  <=> (~Returned(c) /\ pc'[c] = "done" /\ result'[c].err = ErrPublish)
            /\ (LifeState(pc[c]) = "AWAITING" /\ LifeState(pc'[c]) = "TERMINAL")
                  => result'[c].err # ErrPublish
            /\ TerminalIsFinal(c)]_vars

\* one call returned the publish error without ever awaiting; the other
\* timed out, and afterwards its context was cancelled or a reply carrying
\* its identifier arrived and is held at the hand-off
C5_Witness ==
    \E c1, c2 \in Calls :
        /\ Returned(c1) /\ ByPublishError(c1)
        /\ Returned(c2) /\ ByTimeout(c2) /\ ctxErr[c2] # ErrNil
        /\ \E h \in late : hmsg[h].correl = cID[c2] /\ hpc[h] = "send"

\* C6: a call resolved by its timeout arm returns ErrRequestTimeout and,
\* in the state right after it returns, the registry does not contain its
\* correlation identifier.
C6_TimeoutRemovesEntry ==
    [][\A c \in Calls :
          RequestTimeout(c) =>
             /\ result'[c] = [resp |-> NilMsg, err |-> ErrRequestTimeout]
             /\ cID[c] \notin DOMAIN correlData']_vars

\* C7: when Publish fails the call returns the publish error without
\* entering the wait, and its registry entry is gone when it returns.
C7_PublishFailRemovesEntry ==
    [][\A c \in Calls :
          RequestPublishFail(c) =>
             /\ pc'[c] = "done"
             /\ result'[c] = [resp |-> NilMsg, err |-> ErrPublish]
             /\ cID[c] \notin DOMAIN correlData']_vars

\* C8: when the context is done while the call waits, the call returns the
\* context's error and the registry no longer contains its identifier.
C8_CancelRemovesEntry ==
    [][\A c \in Calls :
          RequestCtxDone(c) =>
             /\ pc'[c] = "done"
             /\ result'[c] = [resp |-> NilMsg, err |-> ctxErr[c]]
             /\ cID[c] \notin DOMAIN correlData']_vars

\* the identifiers a message can carry
AllIDs == {UUID(c) : c \in Calls} \cup {ForeignID}

\* C9: the registry has an entry for an identifier if and only if some
\* Request call that generated it is registered and has not yet returned.
C9_EntryIffAwaiting ==
    \A k \in AllIDs :
        InRegistry(k) <=>
           \E c \in Calls : cID[c] = k /\ pc[c] \in {"publish", "select"}

\* C10: among all invocations carrying an identifier at most one obtains
\* the reply slot and every other gets nothing; at most one invocation
\* ever holds (and so writes to) a given slot; a slot is read only by the
\* call that created it.
C10_AtMostOnce ==
    /\ \A k \in AllIDs :
          Cardinality({h \in Handlers :
                          ObtainedSlot(h) /\ hmsg[h].correl = k}) <= 1
    /\ \A c \in Calls :
          Cardinality({h \in Handlers : hChan[h] = MakeChan(c)}) <= 1
    /\ \A h \in Handlers :
          PastLookup(h) /\ ~ObtainedSlot(h) =>
             \A c \in Calls : result[c].resp # hmsg[h]
    /\ \A c \in Calls :
          ByReply(c) =>
             \E h \in Handlers :
                 /\ hChan[h] = MakeChan(c)
                 /\ hmsg[h] = result[c].resp
                 /\ hmsg[h].correl = UUID(c)

\* two invocations carrying the same identifier are both past the lookup:
\* one obtained the slot, the duplicate got nothing
C10_Witness ==
    \E h1, h2 \in Handlers :
        /\ h1 # h2
        /\ hmsg[h1].correl = hmsg[h2].correl
        /\ hmsg[h1].correl \in {UUID(c) : c \in Calls}
        /\ ObtainedSlot(h1)
        /\ PastLookup(h2) /\ ~ObtainedSlot(h2)
\* ---- inbound messages without effect ------------------------------------
\* the message of invocation h carries no correlation identifier
Uncorrelated(m) == (~m.hasProps) \/ m.correl = NilData

\* nothing a caller or another invocation can observe has changed
NoObservableEffect ==
    /\ correlData' = correlData
    /\ pc' = pc
    /\ result' = result
    /\ wire' = wire

\* C11: an inbound message with nil properties or nil correlation data, or
\* with an identifier that is not in the registry, has no observable
\* effect: responseHandler returns without obtaining a slot, the registry
\* is unchanged and no Request call's position or outcome changes.
C11_UnmatchedIsNoop ==
    [][\A h \in Handlers :
          /\ (hpc[h] = "idle" /\ hpc'[h] # "idle" /\ Uncorrelated(hmsg'[h]))
                => (hpc'[h] = "done" /\ hChan'[h] = NilChan /\ NoObservableEffect)
          /\ (hpc[h] = "idle" /\ hpc'[h] # "idle" /\ ~Uncorrelated(hmsg'[h]))
                => (hpc'[h] = "getLock" /\ NoObservableEffect)
          /\ (hpc[h] = "getLock" /\ hpc'[h] # "getLock"
                /\ ~InRegistry(hmsg[h].correl))
                => (hpc'[h] = "getBody" /\ NoObservableEffect)
          /\ (hpc[h] = "getBody" /\ hpc'[h] # "getBody"
                /\ ~InRegistry(hmsg[h].correl))
                => (hpc'[h] = "done" /\ hChan'[h] = NilChan /\ NoObservableEffect)
      ]_vars

\* an invocation without correlation data and one with an identifier
\* unknown to the registry have both returned while a registered call is
\* still awaiting its reply
C11_Witness ==
    \E h1, h2 \in Handlers, c \in Calls :
        /\ hpc[h1] = "done" /\ Uncorrelated(hmsg[h1]) /\ hmsg[h1].mid = h1
        /\ hpc[h2] = "done" /\ hmsg[h2].correl = ForeignID
        /\ pc[c] = "select" /\ InRegistry(cID[c])

\* C12: under the scheduling of FairSpec every Request call that has been
\* started eventually returns, whether or not a reply for it ever arrives.
C12_RequestReturns ==
    \A c \in Calls : (pc[c] # "idle") ~> (pc[c] = "done")

\* one call returned by timeout while an invocation carrying the other
\* call's identifier holds that call's slot; the other call returned too
C12_Witness ==
    \E c1, c2 \in Calls, h \in Handlers :
        /\ c1 # c2
        /\ Returned(c1) /\ ByTimeout(c1)
        /\ Returned(c2)
        /\ ObtainedSlot(h) /\ hChan[h] = MakeChan(c2)
\* ---- the success path ---------------------------------------------------
\* C13: a reply carrying the identifier of an awaiting call, looked up
\* while the entry is registered, obtains that call's slot; from then on
\* the hand-off can complete at once, and unless the timeout or the
\* cancellation arm fires first the call returns exactly that message
\* with a nil error.
C13_ReplyDelivered ==
    /\ [][\A h \in Handlers, c \in Calls :
            (/\ hpc[h] = "getBody" /\ hpc'[h] # "getBody"
             /\ hmsg[h].correl = cID[c]
             /\ pc[c] = "select"
             /\ InRegistry(cID[c]))
            => (hpc'[h] = "send" /\ hChan'[h] = MakeChan(c))]_vars
    /\ [](\A h \in Handlers, c \in Calls :
            (hpc[h] = "send" /\ hChan[h] = MakeChan(c) /\ pc[c] = "select")
            => ENABLED Handoff(h, c))
    /\ [][\A c \in Calls :
            (/\ pc[c] = "select" /\ pc'[c] = "done"
             /\ result'[c].err # ErrRequestTimeout
             /\ result'[c].err \notin CtxErrs)
            => \E h \in Handlers :
                  /\ hpc[h] = "send" /\ hpc'[h] = "done"
                  /\ hmsg[h].correl = cID[c]
                  /\ hmsg[h].mid = h
                  /\ result'[c] = [resp |-> hmsg[h], err |-> ErrNil]]_vars

\* a call whose context is still live returned the reply of an invocation
\* that was handed the message while the call was awaiting
C13_Witness ==
    \E h \in Handlers, c \in Calls :
        /\ Returned(c) /\ ByReply(c) /\ ctxErr[c] = ErrNil
        /\ result[c].resp = hmsg[h] /\ h \notin late
        /\ hpc[h] = "done" /\ hChan[h] = MakeChan(c)

\* invocation h returns without a hand-off in this step
DropStep(h) ==
    /\ hpc[h] \in {"idle", "getBody"}
    /\ hpc'[h] = "done"

\* C14: every error is returned with a nil reply and names its cause:
\* ErrRequestTimeout only from the timeout arm of the select, the
\* transport's error only from a failed Publish, a context error only from
\* the ctx.Done arm and equal to the context's error; a dropped inbound
\* message changes no call's result.
C14_ErrorsNameTheirCause ==
    [][/\ \A c \in Calls :
            (~Returned(c) /\ pc'[c] = "done") =>
               /\ result'[c].err # ErrNil => result'[c].resp = NilMsg
               /\ result'[c].err = ErrRequestTimeout
                     => (pc[c] = "select" /\ ~RequestCtxDone(c))
               /\ result'[c].err = ErrPublish => pc[c] = "publish"
               /\ result'[c].err \in CtxErrs
                     => (/\ pc[c] = "select"
                         /\ ctxErr[c] = result'[c].err
                         /\ RequestCtxDone(c))
               /\ result'[c].err \in {ErrNil, ErrRequestTimeout, ErrPublish}
                                       \cup CtxErrs
       /\ \A h \in Handlers :
            DropStep(h) => (result' = result /\ pc' = pc)
      ]_vars

\* three different outcomes side by side: one call returned the publish
\* error, the other a context error, and an invocation was dropped
C14_Witness ==
    \E c1, c2 \in Calls, h \in Handlers :
        /\ Returned(c1) /\ ByPublishError(c1)
        /\ Returned(c2) /\ ByCancel(c2)
        /\ hpc[h] = "done" /\ ~ObtainedSlot(h)
\* ---- ordering and independence -----------------------------------------
\* the slot of call c is registered under its identifier, or an invocation
\* carrying that identifier has taken it out
RegisteredOrTaken(c) ==
    \/ MapGet(correlData, cID[c]) = MakeChan(c)
    \/ \E h \in Handlers :
          /\ hmsg[h].correl = cID[c]
          /\ ObtainedSlot(h) /\ hChan[h] = MakeChan(c)

OthersUnchanged(k) ==
    /\ \A x \in AllIDs \ {k} :
          /\ (x \in DOMAIN correlData') <=> (x \in DOMAIN correlData)
          /\ MapGet(correlData', x) = MapGet(correlData, x)
    /\ \A c \in Calls :
          cID[c] # k => (pc'[c] = pc[c] /\ result'[c] = result[c])
    /\ \A h \in Handlers :
          hmsg[h].correl # k =>
             (hpc'[h] = hpc[h] /\ hChan'[h] = hChan[h] /\ hmsg'[h] = hmsg[h])

\* C16: addCorrelID for identifier X and responseHandler for a message
\* carrying X change only the registry entry for X; every other
\* identifier's entry and slot and every other call's outcome are left
\* as they were.
C16_IdentifiersIndependent ==
    [][/\ \A c \in Calls :
            (pc[c] = "addBody" /\ pc'[c] # "addBody") => OthersUnchanged(cID[c])
       /\ \A h \in Handlers :
            (hpc[h] \in {"getLock", "getBody", "send"} /\ hpc'[h] # hpc[h])
            => OthersUnchanged(hmsg[h].correl)
      ]_vars

\* both identifiers are registered and a reply for one of them has been
\* delivered while the other call is still awaiting with its entry intact
C16_Witness ==
    \E c1, c2 \in Calls, h \in Handlers :
        /\ c1 # c2
        /\ Returned(c1) /\ ByReply(c1) /\ result[c1].resp = hmsg[h]
        /\ pc[c2] = "select"
        /\ MapGet(correlData, cID[c2]) = MakeChan(c2)
\* ---- the mutex ----------------------------------------------------------
\* C17: the mutex is held only between Lock and the deferred Unlock of
\* addCorrelID and getCorrelIDChan: never during Publish, the select or the
\* send.  Its holder can always finish and release it, so an invocation
\* held at its send never keeps another identifier from being registered
\* or looked up.
C17_LockOnlyAroundMap ==
    /\ \A c \in Calls :
          /\ (ReqProc(c) \in mutex) <=> (pc[c] = "addBody")
          /\ (ReqProc(c) \in mutex) => ENABLED addCorrelID(c)
          /\ (pc[c] = "addLock" /\ mutex = {}) => ENABLED addCorrelIDLock(c)
    /\ \A h \in Handlers :
          /\ (HdlProc(h) \in mutex) <=> (hpc[h] = "getBody")
          /\ (HdlProc(h) \in mutex) => ENABLED getCorrelIDChan(h)
          /\ (hpc[h] = "getLock" /\ mutex = {}) => ENABLED getCorrelIDChanLock(h)
    /\ Cardinality(mutex) <= 1
    /\ (\E h \in Handlers : hpc[h] = "send") =>
          \A p \in mutex : \E c \in Calls, h \in Handlers :
              \/ p = ReqProc(c) /\ pc[c] = "addBody"
              \/ p = HdlProc(h) /\ hpc[h] = "getBody"

\* an invocation is held at its send for a call that has already returned
\* while another call holds the mutex to register its identifier
C17_Witness ==
    \E h \in Handlers, c1, c2 \in Calls :
        /\ hpc[h] = "send" /\ hChan[h] = MakeChan(c1) /\ Returned(c1)
        /\ c2 # c1 /\ mutex = {ReqProc(c2)}

\* C18: whenever a Request call has returned a reply its identifier is not
\* in the registry: the invocation that delivers it has removed the entry
\* before it reaches the send.
C18_EntryGoneOnSuccess ==
    /\ \A c \in Calls :
          (Returned(c) /\ ByReply(c)) => ~InRegistry(cID[c])
    /\ \A h \in Handlers :
          (hpc[h] = "send" \/ (hpc[h] = "done" /\ ObtainedSlot(h)))
          => ~InRegistry(hmsg[h].correl)

\* a call has returned its reply while the other call's entry is still
\* registered
C18_Witness ==
    \E c1, c2 \in Calls :
        /\ Returned(c1) /\ ByReply(c1) /\ result[c1].resp.correl = cID[c1]
        /\ c2 # c1 /\ InRegistry(cID[c2])

\* C19: an invocation that obtained a reply slot has returned only if the
\* call that created the slot has received exactly its message.
C19_Rendezvous ==
    \A h \in Handlers :
        (hpc[h] = "done" /\ ObtainedSlot(h)) =>
           \E c \in Calls :
               /\ hChan[h] = MakeChan(c)
               /\ Returned(c)
               /\ result[c] = [resp |-> hmsg[h], err |-> ErrNil]

\* one invocation has returned after its hand-off while another, holding
\* the slot of a call that timed out, has not returned
C19_Witness ==
    \E h1, h2 \in Handlers :
        /\ hpc[h1] = "done" /\ ObtainedSlot(h1)
        /\ hpc[h2] = "send" /\ h2 \in late
====
